---- MODULE Spec2Model ----
(***************************************************************************)
(* Model of yolo-traffic-monitor: the batch sampler                        *)
(* (ImageFetcher._capture_all_frames_by_duration), the frame aggregator    *)
(* (ImageAnalyzer.analyze_multiple_frames), the cycle scheduler            *)
(* (CCTVAnalyzer.run_analysis / schedule_next / stop) and the live         *)
(* throttler (VideoStreamer.generate_frames).                              *)
(*                                                                         *)
(* Frame rates are rationals with denominator FpsDen, kept as their        *)
(* numerator (fps2 = 2 * fps).  A frame path temp_dir/frame_<k>.jpg is     *)
(* kept as its index k.  A decode session handle (cv2.VideoCapture) is     *)
(* "none" (no object), "unopened" (object whose isOpened() is False),      *)
(* "open" or "released".                                                   *)
(***************************************************************************)
EXTENDS Integers, Sequences, FiniteSets, TLC

(* ---------------- program constants ---------------- *)
DefaultFps == 15        \* image_fetcher.py:96   fps = 15
CapSeconds == 15        \* image_fetcher.py:127  frame_count > fps * 15
TargetFps == 15         \* server.py:107         target_fps = 15

(* ---------------- bounds of the model ---------------- *)
FpsDen == 2             \* frame rates are multiples of 1/2
MaxFpsHalves == 4       \* reported rates 0, 0.5, .. 2.0 (and DefaultFps)
SamplerFrames == 230    \* frames a stream can deliver to a direct sampler call
CycleFrames == 2        \* frames a stream can deliver inside a cycle
MaxWriteFails == 1      \* cv2.imwrite returning False, per sampler run
MaxPaths == 4           \* length of image_paths in a direct aggregator call
MaxCount == 5           \* detections per frame in a direct aggregator call
CycleCount == 1         \* detections per frame inside a cycle
MaxIter == 2            \* cycles of one CCTVAnalyzer
MaxConsecFails == 3     \* consecutive read failures of the live stream
MaxEmit == 2            \* frames emitted by the live generator
IntervalTicks == 2      \* frame_interval (1/target_fps) in clock ticks
MaxChan == 2            \* channel ids 1 .. MaxChan
MaxUrl == 2             \* stream URLs 1 .. MaxUrl
MaxList == 2            \* entries in the lookup response's channel list

VARIABLES
    (* batch sampler: ImageFetcher._capture_all_frames_by_duration *)
    spc,            \* position: off, open, mkdir, fps, read, except, finally, done
    cap,            \* the handle bound to the local `cap`
    releases,       \* number of cap.release() calls made by this run
    fps2,           \* fps * FpsDen
    skip_frames,    \* int(fps * 1.0)
    frame_count,
    saved_paths,    \* sequence of frame indices k (frame_<k>.jpg)
    writeFails,     \* imwrite calls that returned False in this run
    exitPath,       \* how the run left the try block
    sret,           \* value returned by the sampler
    streamLimit,    \* frames the stream of this run can deliver at most
    (* file system *)
    tempDirs,       \* existing batch directories under temp/
    tempFiles,      \* <<dir, k, n>>: dir/frame_<k>.jpg holds the n-th frame read
    output,         \* artifacts under output/: [cycle, idx, path]
    (* frame aggregator: ImageAnalyzer.analyze_multiple_frames *)
    apc,            \* off, call, done
    image_paths,
    result,         \* [avg, frame_counts, saved], avg a reduced fraction <<n, d>>
    aexit,          \* return path taken: empty, middle_failed, ok, exception
    redetected,     \* positions (0-based) passed to the second detect call
    vehicle_counts, \* the local list as the per-frame loop left it
    undetected,     \* positions (1-based) whose detect call gave (None, [])
    (* cycle scheduler: CCTVAnalyzer *)
    cpc,            \* off, idle, try, sampling, analyze, except, finally, schedule
    iteration,
    temp_dir,       \* 0 is None, otherwise the batch directory's timestamp
    frame_paths,
    alerts,         \* messages delivered by TelegramUtil.send_message
    timer,          \* none, armed, fired, cancelled
    stopped,
    alertFailed,    \* send_message raised in the except handler of this cycle
    (* live throttler: VideoStreamer.generate_frames *)
    gpc,            \* off, resolve, open, read, release, sleep, reopen, throttle,
                    \* annotate, encode, yield, except, finally, finished
    gcap,           \* the handle bound to the local `cap`
    openSessions,   \* decode sessions opened by the generator and not released
    analyzer,       \* self.analyzer is not None
    curDelta,       \* current_time - last_frame_time, saturated at IntervalTicks
    sinceSample,    \* time passed since current_time was taken, saturated likewise
    consecFails,    \* read failures since the last successful read
    relDone, sleepDone, reopDone,   \* release / sleep / reopen steps since then
    emitted,        \* frames yielded
    gexit,          \* why the generator finished
    sinceYield,     \* time passed since the last yield, saturated likewise
    lastGap,        \* sinceYield at the moment of the latest yield
    disconnected,   \* the consumer of the response has gone away
    (* channel lookup: GET /api/hls-url over ImageFetcher._get_hls_url *)
    lpc,            \* off, cookies, lookup, done
    cctv_id,        \* the requested channel
    cookies,        \* _get_cookies returned a non-empty jar
    status_code,    \* status of the lookup response
    cctv_list,      \* its channel list: [channel, hlsUrl], hlsUrl 0 when absent
    hls_url,        \* value returned by _get_hls_url, 0 is None
    httpStatus      \* status of the endpoint's own response, 0 before it is sent

samplerVars == <<spc, cap, releases, fps2, skip_frames, frame_count, saved_paths,
                 writeFails, exitPath, sret, streamLimit>>
fsVars == <<tempDirs, tempFiles, output>>
aggVars == <<apc, image_paths, result, aexit, redetected, vehicle_counts,
             undetected>>
cycleVars == <<cpc, iteration, temp_dir, frame_paths, alerts, timer, stopped,
               alertFailed>>
liveVars == <<gpc, gcap, openSessions, analyzer, curDelta, sinceSample, consecFails,
              relDone, sleepDone, reopDone, emitted, gexit, sinceYield, lastGap,
              disconnected>>
locVars == <<lpc, cctv_id, cookies, status_code, cctv_list, hls_url, httpStatus>>
vars == <<samplerVars, fsVars, aggVars, cycleVars, liveVars, locVars>>

(* ---------------- helpers ---------------- *)
NoResult == [avg |-> <<0, 1>>, frame_counts |-> <<>>, saved |-> FALSE]

RECURSIVE GCD(_, _)
GCD(a, b) == IF b = 0 THEN a ELSE GCD(b, a % b)

\* a / b as a reduced fraction (Python's true division of two ints)
Div(a, b) == LET g == GCD(a, b) IN <<a \div g, b \div g>>

RECURSIVE Sum(_)
Sum(s) == IF s = <<>> THEN 0 ELSE Head(s) + Sum(Tail(s))

\* rates cap.get(CAP_PROP_FPS) may report, times FpsDen
ReportedFps == (0 .. MaxFpsHalves) \cup {FpsDen * DefaultFps}

(* ---------------- initial values of each component ---------------- *)
SamplerOff ==
    /\ spc = "off" /\ cap = "none" /\ releases = 0 /\ fps2 = 0
    /\ skip_frames = 0 /\ frame_count = 0 /\ saved_paths = <<>>
    /\ writeFails = 0 /\ exitPath = "" /\ sret = <<>>
FsEmpty == tempDirs = {} /\ tempFiles = {} /\ output = {}
AggOff ==
    /\ apc = "off" /\ image_paths = <<>> /\ result = NoResult
    /\ aexit = "" /\ redetected = {}
    /\ vehicle_counts = <<>> /\ undetected = {}
CycleOff ==
    /\ cpc = "off" /\ iteration = 0 /\ temp_dir = 0 /\ frame_paths = <<>>
    /\ alerts = 0 /\ timer = "none" /\ stopped = FALSE /\ alertFailed = FALSE
LiveOff ==
    /\ gpc = "off" /\ gcap = "none" /\ openSessions = 0 /\ analyzer = FALSE
    /\ curDelta = IntervalTicks /\ sinceSample = 0 /\ consecFails = 0
    /\ relDone = 0 /\ sleepDone = 0 /\ reopDone = 0 /\ emitted = 0 /\ gexit = ""
    /\ sinceYield = IntervalTicks /\ lastGap = IntervalTicks /\ disconnected = FALSE
LocOff ==
    /\ lpc = "off" /\ cctv_id = 0 /\ cookies = FALSE /\ status_code = 0
    /\ cctv_list = <<>> /\ hls_url = 0 /\ httpStatus = 0

\* the locals of a finished call go out of scope
SamplerReset ==
    /\ spc' = "off" /\ cap' = "none" /\ releases' = 0 /\ fps2' = 0
    /\ skip_frames' = 0 /\ frame_count' = 0 /\ saved_paths' = <<>>
    /\ writeFails' = 0 /\ exitPath' = "" /\ sret' = <<>>
AggReset ==
    /\ apc' = "off" /\ image_paths' = <<>> /\ result' = NoResult
    /\ aexit' = "" /\ redetected' = {}
    /\ vehicle_counts' = <<>> /\ undetected' = {}

(***************************************************************************)
(* Batch sampler: ImageFetcher._capture_all_frames_by_duration             *)
(***************************************************************************)

\* what no step of the sampler touches
othersS == <<output, aggVars, cycleVars, liveVars, locVars>>

\* skip_frames = int(fps * 1.0): truncation toward zero
SkipFrames(f2) == f2 \div FpsDen

\* frame_count > fps * 15
CeilingReached(fc, f2) == fc * FpsDen > f2 * CapSeconds

\* an exception inside the try block: control goes to the except clause
SamplerRaise ==
    /\ spc' = "except"
    /\ UNCHANGED <<cap, releases, fps2, skip_frames, frame_count, saved_paths,
                   writeFails, exitPath, sret, streamLimit, tempDirs, tempFiles>>

\* a return statement inside the try block: the finally clause runs next
SamplerReturn(v, how) ==
    /\ sret' = v /\ exitPath' = how /\ spc' = "finally"

\* variant: os.makedirs(temp_dir) comes before the isOpened test
SamplerOpenMkdirFirst ==
    /\ spc = "open"
    /\ UNCHANGED othersS
    /\ \/ /\ cap' = "open" /\ spc' = "mkdir"
          /\ UNCHANGED <<exitPath, sret, tempDirs>>
       \/ /\ cap' = "unopened"
          /\ tempDirs' = tempDirs \cup {temp_dir}
          /\ SamplerReturn(<<>>, "open_failed")
       \/ /\ cap' = cap /\ spc' = "except"
          /\ UNCHANGED <<exitPath, sret, tempDirs>>
    /\ UNCHANGED <<releases, fps2, skip_frames, frame_count, saved_paths,
                   writeFails, streamLimit, tempFiles>>

\* cap = cv2.VideoCapture(hls_url); if not cap.isOpened(): return []
SamplerOpen ==
    /\ spc = "open"
    /\ UNCHANGED othersS
    /\ \/ /\ cap' = "open" /\ spc' = "mkdir"
          /\ UNCHANGED <<exitPath, sret>>
       \/ /\ cap' = "unopened"
          /\ SamplerReturn(<<>>, "open_failed")
       \/ /\ cap' = cap /\ spc' = "except"      \* the constructor raises
          /\ UNCHANGED <<exitPath, sret>>
    /\ UNCHANGED <<releases, fps2, skip_frames, frame_count, saved_paths,
                   writeFails, streamLimit, tempDirs, tempFiles>>

\* os.makedirs(temp_dir, exist_ok=True)
SamplerMkdir ==
    /\ spc = "mkdir"
    /\ UNCHANGED othersS
    /\ \/ /\ tempDirs' = tempDirs \cup {temp_dir}
          /\ spc' = "fps"
          /\ UNCHANGED <<cap, releases, fps2, skip_frames, frame_count, saved_paths,
                         writeFails, exitPath, sret, streamLimit, tempFiles>>
       \/ SamplerRaise

\* fps = cap.get(CAP_PROP_FPS), the fallback, frame_count = 0, skip_frames
SamplerFps ==
    /\ spc = "fps"
    /\ UNCHANGED othersS
    /\ \E r \in ReportedFps :
          LET f == IF r <= 0 THEN DefaultFps * FpsDen ELSE r IN
          /\ fps2' = f
          /\ skip_frames' = SkipFrames(f)
    /\ frame_count' = 0
    /\ spc' = "read"
    /\ UNCHANGED <<cap, releases, saved_paths, writeFails, exitPath, sret,
                   streamLimit, tempDirs, tempFiles>>

\* variant: the counter is incremented before the multiple-of-stride test
ShouldSaveAfterCount(fc, skip) == (fc + 1) % skip = 0

\* the frame read as frame_count is due for saving
ShouldSave(fc, skip) == fc % skip = 0

\* variant: the file is named after the running frame count
FrameIndexRaw(fc, skip) == fc

\* frame_index = frame_count // skip_frames
FrameIndex(fc, skip) == fc \div skip

\* the end of one loop iteration: frame_count += 1 and the safety ceiling
SamplerAdvance(paths) ==
    /\ frame_count' = frame_count + 1
    /\ IF CeilingReached(frame_count + 1, fps2)
          THEN SamplerReturn(paths, "ceiling")
          ELSE spc' = "read" /\ UNCHANGED <<exitPath, sret>>

\* one iteration of the while loop
SamplerRead ==
    /\ spc = "read"
    /\ UNCHANGED othersS
    /\ \/ SamplerRaise                                  \* cap.read() raises
       \/ /\ SamplerReturn(saved_paths, "eos")          \* not ret: break
          /\ UNCHANGED <<cap, releases, fps2, skip_frames, frame_count, saved_paths,
                         writeFails, streamLimit, tempDirs, tempFiles>>
       \/ /\ frame_count < streamLimit                  \* a frame was read
          /\ IF skip_frames = 0
                THEN SamplerRaise                       \* ZeroDivisionError
                ELSE IF ShouldSave(frame_count, skip_frames)
                   THEN LET k == FrameIndex(frame_count, skip_frames) IN
                        \/ /\ saved_paths' = Append(saved_paths, k)  \* imwrite True
                           /\ tempFiles' = tempFiles \cup {<<temp_dir, k, frame_count>>}
                           /\ SamplerAdvance(Append(saved_paths, k))
                           /\ UNCHANGED <<cap, releases, fps2, skip_frames, writeFails,
                                          streamLimit, tempDirs>>
                        \/ /\ writeFails < MaxWriteFails             \* imwrite False
                           /\ writeFails' = writeFails + 1
                           /\ SamplerAdvance(saved_paths)
                           /\ UNCHANGED <<cap, releases, fps2, skip_frames, saved_paths,
                                          streamLimit, tempDirs, tempFiles>>
                        \/ SamplerRaise                              \* imwrite raises
                   ELSE /\ SamplerAdvance(saved_paths)
                        /\ UNCHANGED <<cap, releases, fps2, skip_frames, saved_paths,
                                       writeFails, streamLimit, tempDirs, tempFiles>>

\* except Exception: log and return []
SamplerExcept ==
    /\ spc = "except"
    /\ UNCHANGED othersS
    /\ SamplerReturn(<<>>, "exception")
    /\ UNCHANGED <<cap, releases, fps2, skip_frames, frame_count, saved_paths,
                   writeFails, streamLimit, tempDirs, tempFiles>>

\* variant: the release sits at the end of the try body, not in a finally clause
SamplerFinallyLeak ==
    /\ spc = "finally"
    /\ UNCHANGED othersS
    /\ IF cap # "none" /\ exitPath # "exception"
          THEN cap' = "released" /\ releases' = releases + 1
          ELSE UNCHANGED <<cap, releases>>
    /\ spc' = "done"
    /\ UNCHANGED <<fps2, skip_frames, frame_count, saved_paths, writeFails,
                   exitPath, sret, streamLimit, tempDirs, tempFiles>>

\* finally: if cap is not None: cap.release()
SamplerFinally ==
    /\ spc = "finally"
    /\ UNCHANGED othersS
    /\ IF cap # "none"
          THEN cap' = "released" /\ releases' = releases + 1
          ELSE UNCHANGED <<cap, releases>>
    /\ spc' = "done"
    /\ UNCHANGED <<fps2, skip_frames, frame_count, saved_paths, writeFails,
                   exitPath, sret, streamLimit, tempDirs, tempFiles>>

(* a direct call _capture_all_frames_by_duration(url, "temp/batch_1") *)
InitSampler ==
    /\ spc = "open" /\ cap = "none" /\ releases = 0 /\ fps2 = 0
    /\ skip_frames = 0 /\ frame_count = 0 /\ saved_paths = <<>>
    /\ writeFails = 0 /\ exitPath = "" /\ sret = <<>>
    /\ streamLimit = SamplerFrames
    /\ FsEmpty /\ AggOff /\ LiveOff /\ LocOff
    /\ cpc = "off" /\ iteration = 0 /\ temp_dir = 1 /\ frame_paths = <<>>
    /\ alerts = 0 /\ timer = "none" /\ stopped = FALSE /\ alertFailed = FALSE

NextSampler ==
    \/ SamplerOpen \/ SamplerMkdir \/ SamplerFps
    \/ SamplerRead \/ SamplerExcept \/ SamplerFinally

SpecSampler == InitSampler /\ [][NextSampler]_vars

(***************************************************************************)
(* Frame aggregator: ImageAnalyzer.analyze_multiple_frames                 *)
(***************************************************************************)

\* variant: floor division (//) in place of true division
AvgCountFloor(vc) == IF vc # <<>> THEN <<Sum(vc) \div Len(vc), 1>> ELSE <<0, 1>>

\* avg_count = sum(vehicle_counts) / len(vehicle_counts) if vehicle_counts else 0
AvgCount(vc) == IF vc # <<>> THEN Div(Sum(vc), Len(vc)) ELSE <<0, 1>>

\* variant: the lower middle, (len(image_paths) - 1) // 2
MiddleIdxLower(n) == (n - 1) \div 2

\* middle_idx = len(image_paths) // 2
MiddleIdx(n) == n \div 2

\* the dict returned on the three paths that reach the averaging
Counted(vc, savedPath) ==
    [avg |-> AvgCount(vc), frame_counts |-> vc, saved |-> savedPath]

\* the dict returned by the except clause
OnException == [avg |-> <<0, 1>>, frame_counts |-> <<>>, saved |-> FALSE]

\* variant: detect has no handler, the error of an unreadable image or of the
\* inference reaches the caller
DetectUnguarded(ok, k) == [raised |-> ~ok, frame |-> ok, n |-> IF ok THEN k ELSE 0]

\* VehicleDetector.detect on an image: (annotated_frame, detections) with k
\* detections, or (None, []) when the image is unreadable or anything raises
Detect(ok, k) == [raised |-> FALSE, frame |-> ok, n |-> IF ok THEN k ELSE 0]

\* what one detect call of the per-frame loop can answer
DetectResults(maxc) == {Detect(ok, k) : ok \in BOOLEAN, k \in 0 .. maxc}

\* one call analyze_multiple_frames(paths) made in cycle cyc; every detect
\* call of the loop answers with some element of DetectResults(maxc)
Analyze(paths, cyc, maxc) ==
    /\ image_paths' = paths
    /\ apc' = "done"
    /\ IF paths = <<>>
          THEN /\ result' = NoResult /\ aexit' = "empty"
               /\ redetected' = {} /\ output' = output
               /\ vehicle_counts' = <<>> /\ undetected' = {}
          ELSE \E d \in [1 .. Len(paths) -> DetectResults(maxc)] :
               LET raisedAt == {i \in 1 .. Len(paths) : d[i].raised}
                   \* iterations of the loop that ran to their end
                   m == IF raisedAt = {} THEN Len(paths)
                        ELSE (CHOOSE i \in raisedAt : \A j \in raisedAt : i <= j) - 1
                   vc == [i \in 1 .. m |-> d[i].n]
                   mid == MiddleIdx(Len(paths))
               IN
               /\ vehicle_counts' = vc
               /\ undetected' = {i \in 1 .. m : ~d[i].frame}
               /\ IF raisedAt # {}
                     THEN /\ result' = OnException           \* the loop was left
                          /\ aexit' = "exception"            \* by an exception
                          /\ redetected' = {} /\ output' = output
                     ELSE
                  /\ redetected' = {mid}
                  /\ \/ /\ result' = Counted(vc, FALSE)     \* middle_frame is None
                        /\ aexit' = "middle_failed" /\ output' = output
                     \/ /\ result' = Counted(vc, TRUE)      \* imwrite wrote the file
                        /\ aexit' = "ok"
                        /\ output' = output \cup
                              {[cycle |-> cyc, idx |-> mid, path |-> paths[mid + 1]]}
                     \/ /\ result' = Counted(vc, TRUE)      \* imwrite returned False
                        /\ aexit' = "ok" /\ output' = output
                     \/ /\ result' = OnException            \* draw, makedirs or imwrite raises
                        /\ aexit' = "exception" /\ output' = output

(* a direct call analyze_multiple_frames(image_paths) *)
AnalyzeMultipleFrames ==
    /\ apc = "call"
    /\ Analyze(image_paths, 0, MaxCount)
    /\ UNCHANGED <<samplerVars, tempDirs, tempFiles, cycleVars, liveVars, locVars>>

InitAnalyze ==
    /\ SamplerOff /\ streamLimit = 0 /\ FsEmpty /\ CycleOff /\ LiveOff /\ LocOff
    /\ apc = "call" /\ result = NoResult /\ aexit = "" /\ redetected = {}
    /\ vehicle_counts = <<>> /\ undetected = {}
    /\ \E n \in 0 .. MaxPaths : image_paths = [i \in 1 .. n |-> i - 1]

NextAnalyze == AnalyzeMultipleFrames

SpecAnalyze == InitAnalyze /\ [][NextAnalyze]_vars

(***************************************************************************)
(* Cycle scheduler: CCTVAnalyzer                                           *)
(***************************************************************************)

\* self.iteration += 1; temp_dir = None
RunAnalysisEnter ==
    /\ iteration' = iteration + 1
    /\ temp_dir' = 0
    /\ frame_paths' = <<>>
    /\ alertFailed' = FALSE
    /\ cpc' = "try"

\* start(): the first cycle runs at once, on the calling thread
Start ==
    /\ cpc = "off"
    /\ RunAnalysisEnter
    /\ UNCHANGED <<samplerVars, fsVars, aggVars, alerts, timer, stopped, liveVars,
                   locVars>>

\* the armed threading.Timer fires and calls run_analysis
TimerFire ==
    /\ timer = "armed"
    /\ iteration < MaxIter
    /\ timer' = "fired"
    /\ RunAnalysisEnter
    /\ UNCHANGED <<samplerVars, fsVars, aggVars, alerts, stopped, liveVars, locVars>>

\* variant: schedule_next() is called at the top of run_analysis
CycleTryArmsTimer ==
    /\ cpc = "try"
    /\ timer' = "armed"
    /\ \/ /\ temp_dir' = iteration
          /\ cpc' = "sampling"
          /\ spc' = "open"
          /\ UNCHANGED <<frame_paths>>
       \/ /\ temp_dir' = iteration
          /\ cpc' = "finally"
          /\ frame_paths' = <<>>
          /\ spc' = spc
       \/ /\ temp_dir' \in {0, iteration}
          /\ cpc' = "except"
          /\ UNCHANGED <<frame_paths, spc>>
    /\ UNCHANGED <<cap, releases, fps2, skip_frames, frame_count, saved_paths,
                   writeFails, exitPath, sret, streamLimit, fsVars, aggVars,
                   iteration, alerts, stopped, alertFailed, liveVars,
                   locVars>>

\* temp_dir = temp/batch_<timestamp>; fetch_and_download up to the sampler call
CycleTry ==
    /\ cpc = "try"
    /\ \/ /\ temp_dir' = iteration
          /\ cpc' = "sampling"                  \* cookies and URL obtained
          /\ spc' = "open"
          /\ UNCHANGED <<frame_paths>>
       \/ /\ temp_dir' = iteration
          /\ cpc' = "finally"                   \* no cookies, no URL, or a caught error:
          /\ frame_paths' = <<>>                \* fetch_and_download returns []
          /\ spc' = spc
       \/ /\ temp_dir' \in {0, iteration}       \* an exception escapes the try body,
          /\ cpc' = "except"                    \* before or after temp_dir is bound
          /\ UNCHANGED <<frame_paths, spc>>
    /\ UNCHANGED <<cap, releases, fps2, skip_frames, frame_count, saved_paths,
                   writeFails, exitPath, sret, streamLimit, fsVars, aggVars,
                   iteration, alerts, timer, stopped, alertFailed, liveVars,
                   locVars>>

\* variant: no test of the batch, the aggregator is called on whatever came back
CycleFetchedNoCheck ==
    /\ cpc = "sampling" /\ spc = "done"
    /\ frame_paths' = sret
    /\ cpc' = "analyze"
    /\ SamplerReset
    /\ UNCHANGED <<streamLimit, fsVars, aggVars, iteration, temp_dir, alerts,
                   timer, stopped, alertFailed, liveVars, locVars>>

\* variant: the early return on an empty batch leaves run_analysis at once
CycleFetchedEarlyReturn ==
    /\ cpc = "sampling" /\ spc = "done"
    /\ frame_paths' = sret
    /\ cpc' = IF sret = <<>> THEN "idle" ELSE "analyze"
    /\ SamplerReset
    /\ UNCHANGED <<streamLimit, fsVars, aggVars, iteration, temp_dir, alerts,
                   timer, stopped, alertFailed, liveVars, locVars>>

\* the sampler has returned: frame_paths = ...; if not frame_paths: return
CycleFetched ==
    /\ cpc = "sampling" /\ spc = "done"
    /\ frame_paths' = sret
    /\ cpc' = IF sret = <<>> THEN "finally" ELSE "analyze"
    /\ SamplerReset
    /\ UNCHANGED <<streamLimit, fsVars, aggVars, iteration, temp_dir, alerts,
                   timer, stopped, alertFailed, liveVars, locVars>>

\* result = self.analyzer.analyze_multiple_frames(frame_paths) and the log line
CycleAnalyze ==
    /\ cpc = "analyze"
    /\ \/ /\ Analyze(frame_paths, iteration, CycleCount)
          /\ cpc' = "finally"
       \/ /\ cpc' = "except"                    \* an exception escapes the try body
          /\ UNCHANGED <<aggVars, output>>
    /\ UNCHANGED <<samplerVars, tempDirs, tempFiles, iteration, temp_dir,
                   frame_paths, alerts, timer, stopped, alertFailed, liveVars,
                   locVars>>

\* messages the except handler handed to send_message in this cycle
AlertCalls == alerts + (IF alertFailed THEN 1 ELSE 0)

\* variant: send_message is called outside any try, its exception ends the thread
CycleExceptUnguarded ==
    /\ cpc = "except"
    /\ \/ alerts' = alerts + 1 /\ alertFailed' = FALSE /\ cpc' = "finally"
       \/ alerts' = alerts /\ alertFailed' = TRUE /\ cpc' = "idle"
    /\ UNCHANGED <<samplerVars, fsVars, aggVars, iteration, temp_dir, frame_paths,
                   timer, stopped, liveVars, locVars>>

\* except Exception: log, then telegram.send_message inside its own try
CycleExcept ==
    /\ cpc = "except"
    /\ \/ alerts' = alerts + 1 /\ alertFailed' = FALSE    \* the message is sent
       \/ alerts' = alerts /\ alertFailed' = TRUE         \* send_message raises:
    /\ cpc' = "finally"                                   \* caught, logged
    /\ UNCHANGED <<samplerVars, fsVars, aggVars, iteration, temp_dir, frame_paths,
                   timer, stopped, liveVars, locVars>>

\* variant: no guard; os.path.exists(None) raises inside the finally clause and
\* schedule_next is not reached, a missing directory is treated likewise
CycleCleanupUnguarded ==
    /\ cpc = "finally"
    /\ IF temp_dir # 0 /\ temp_dir \in tempDirs
          THEN /\ \/ /\ tempDirs' = tempDirs \ {temp_dir}
                     /\ tempFiles' = {f \in tempFiles : f[1] # temp_dir}
                  \/ UNCHANGED <<tempDirs, tempFiles>>
               /\ cpc' = "schedule"
          ELSE UNCHANGED <<tempDirs, tempFiles>> /\ cpc' = "idle"
    /\ UNCHANGED <<samplerVars, output, aggVars, iteration, temp_dir, frame_paths,
                   alerts, timer, stopped, alertFailed, liveVars, locVars>>

\* finally: if temp_dir and os.path.exists(temp_dir): shutil.rmtree(temp_dir)
CycleCleanup ==
    /\ cpc = "finally"
    /\ IF temp_dir # 0 /\ temp_dir \in tempDirs
          THEN \/ /\ tempDirs' = tempDirs \ {temp_dir}
                  /\ tempFiles' = {f \in tempFiles : f[1] # temp_dir}
               \/ UNCHANGED <<tempDirs, tempFiles>>   \* rmtree raises: caught, logged
          ELSE UNCHANGED <<tempDirs, tempFiles>>
    /\ cpc' = "schedule"
    /\ UNCHANGED <<samplerVars, output, aggVars, iteration, temp_dir, frame_paths,
                   alerts, timer, stopped, alertFailed, liveVars, locVars>>

\* schedule_next(): a new Timer is created and started; run_analysis ends
ScheduleNext ==
    /\ cpc = "schedule"
    /\ timer' = "armed"
    /\ cpc' = "idle"
    /\ temp_dir' = 0 /\ frame_paths' = <<>>
    /\ AggReset
    /\ UNCHANGED <<samplerVars, fsVars, iteration, alerts, stopped, alertFailed,
                   liveVars, locVars>>

\* stop(), and the KeyboardInterrupt handler of start(): if self.timer: cancel()
Stop ==
    /\ ~stopped
    /\ cpc # "off"
    /\ stopped' = TRUE
    /\ timer' = IF timer = "armed" THEN "cancelled" ELSE timer
    /\ UNCHANGED <<samplerVars, fsVars, aggVars, cpc, iteration, temp_dir,
                   frame_paths, alerts, alertFailed, liveVars, locVars>>

Init ==
    /\ SamplerOff /\ streamLimit = CycleFrames
    /\ FsEmpty /\ AggOff /\ CycleOff /\ LiveOff /\ LocOff

Next ==
    \/ Start \/ TimerFire \/ CycleTry
    \/ SamplerOpen \/ SamplerMkdir \/ SamplerFps
    \/ SamplerRead \/ SamplerExcept \/ SamplerFinally
    \/ CycleFetched \/ CycleAnalyze \/ CycleExcept \/ CycleCleanup
    \/ ScheduleNext \/ Stop

Spec == Init /\ [][Next]_vars

(***************************************************************************)
(* Live throttler: VideoStreamer.generate_frames                           *)
(***************************************************************************)

\* what no step of the generator touches
othersG == <<samplerVars, fsVars, aggVars, cycleVars, locVars>>

Min(a, b) == IF a < b THEN a ELSE b

\* time.sleep(0.5), in ticks: half of the TargetFps intervals of one second
BackoffTicks == (IntervalTicks * TargetFps) \div 2

\* time passes: d ticks more since current_time was taken
Elapse(d) ==
    /\ sinceSample' = Min(IntervalTicks, sinceSample + d)
    /\ sinceYield' = Min(IntervalTicks, sinceYield + d)

\* variant: the missing URL is logged but the generator goes on to open it
LiveResolveNoReturn ==
    /\ gpc = "resolve"
    /\ \/ gpc' = "open" /\ gexit' = gexit
       \/ gpc' = "open" /\ gexit' = "no_cookies"
       \/ gpc' = "open" /\ gexit' = "no_url"
    /\ UNCHANGED <<gcap, openSessions, analyzer, curDelta, sinceSample, consecFails,
                   relDone, sleepDone, reopDone, emitted,
                   sinceYield, lastGap, disconnected, othersG>>

\* hls_url = self.get_stream_url(); if not hls_url: return
LiveResolve ==
    /\ gpc = "resolve"
    /\ \/ gpc' = "open" /\ gexit' = gexit
       \/ gpc' = "finished" /\ gexit' = "no_cookies"       \* get_stream_url gave
       \/ gpc' = "finished" /\ gexit' = "no_url"           \* None: return
    /\ UNCHANGED <<gcap, openSessions, analyzer, curDelta, sinceSample, consecFails,
                   relDone, sleepDone, reopDone, emitted,
                   sinceYield, lastGap, disconnected, othersG>>

\* cap = cv2.VideoCapture(hls_url); if not cap.isOpened(): return
LiveOpen ==
    /\ gpc = "open"
    /\ \/ /\ gcap' = "open" /\ openSessions' = openSessions + 1
          /\ gpc' = "read" /\ gexit' = gexit
       \/ /\ gcap' = "unopened" /\ openSessions' = openSessions
          /\ gpc' = "finished" /\ gexit' = "open_failed"
       \/ /\ gcap' = gcap /\ openSessions' = openSessions   \* the constructor raises,
          /\ gpc' = "finished" /\ gexit' = "raised"         \* outside the try block
    /\ UNCHANGED <<analyzer, curDelta, sinceSample, consecFails,
                   relDone, sleepDone, reopDone, emitted,
                   sinceYield, lastGap, disconnected, othersG>>

\* variant: the loop breaks at the second consecutive read failure
LiveReadGiveUp ==
    /\ gpc = "read"
    /\ curDelta' = Min(IntervalTicks, curDelta + sinceSample)
    /\ \E d \in 0 .. IntervalTicks :
          sinceSample' = d /\ sinceYield' = Min(IntervalTicks, sinceYield + d)
    /\ \/ /\ gpc' = "except"
          /\ UNCHANGED <<consecFails, relDone, sleepDone, reopDone>>
       \/ /\ consecFails' = Min(MaxConsecFails, consecFails + 1)
          /\ relDone' = Min(MaxConsecFails - 1, relDone)
          /\ sleepDone' = Min(MaxConsecFails - 1, sleepDone)
          /\ reopDone' = Min(MaxConsecFails - 1, reopDone)
          /\ gpc' = IF consecFails >= 1 THEN "finally" ELSE "release"
       \/ /\ gcap = "open"
          /\ consecFails' = 0 /\ relDone' = 0 /\ sleepDone' = 0 /\ reopDone' = 0
          /\ gpc' = "throttle"
    /\ UNCHANGED <<gcap, openSessions, analyzer, emitted, gexit, lastGap,
                   disconnected, othersG>>

\* current_time = time.time(); ret, frame = cap.read(); if not ret: ...
LiveRead ==
    /\ gpc = "read"
    /\ curDelta' = Min(IntervalTicks, curDelta + sinceSample)
    /\ \E d \in 0 .. IntervalTicks :
          sinceSample' = d /\ sinceYield' = Min(IntervalTicks, sinceYield + d)
    /\ \/ /\ gpc' = "except"                                \* cap.read() raises
          /\ UNCHANGED <<consecFails, relDone, sleepDone, reopDone>>
       \/ /\ consecFails' = Min(MaxConsecFails, consecFails + 1)    \* not ret
          /\ relDone' = Min(MaxConsecFails - 1, relDone)      \* the counts keep
          /\ sleepDone' = Min(MaxConsecFails - 1, sleepDone)  \* to the latest
          /\ reopDone' = Min(MaxConsecFails - 1, reopDone)    \* MaxConsecFails
          /\ gpc' = "release"                                \* failures
       \/ /\ gcap = "open"                                  \* a frame was read
          /\ consecFails' = 0 /\ relDone' = 0 /\ sleepDone' = 0 /\ reopDone' = 0
          /\ gpc' = "throttle"
    /\ UNCHANGED <<gcap, openSessions, analyzer, emitted, gexit, lastGap,
                   disconnected, othersG>>

\* variant: the failed session is not released before the reopen
LiveReleaseSkipped ==
    /\ gpc = "release"
    /\ relDone' = relDone + 1
    /\ gpc' = "sleep"
    /\ UNCHANGED <<gcap, openSessions, analyzer, curDelta, sinceSample, consecFails,
                   sleepDone, reopDone, emitted, gexit,
                   sinceYield, lastGap, disconnected, othersG>>

\* cap.release() after a failed read
LiveRelease ==
    /\ gpc = "release"
    /\ openSessions' = IF gcap = "open" THEN openSessions - 1 ELSE openSessions
    /\ gcap' = "released"
    /\ relDone' = relDone + 1
    /\ gpc' = "sleep"
    /\ UNCHANGED <<analyzer, curDelta, sinceSample, consecFails, sleepDone, reopDone,
                   emitted, gexit,
                   sinceYield, lastGap, disconnected, othersG>>

\* time.sleep(0.5)
LiveSleep ==
    /\ gpc = "sleep"
    /\ Elapse(BackoffTicks)
    /\ sleepDone' = sleepDone + 1
    /\ gpc' = "reopen"
    /\ UNCHANGED <<gcap, openSessions, analyzer, curDelta, consecFails, relDone,
                   reopDone, emitted, gexit,
                   lastGap, disconnected, othersG>>

\* cap = cv2.VideoCapture(hls_url); continue
LiveReopen ==
    /\ gpc = "reopen"
    /\ reopDone' = reopDone + 1
    /\ \/ /\ gcap' = "open" /\ openSessions' = openSessions + 1
          /\ gpc' = "read"
       \/ /\ gcap' = "unopened" /\ openSessions' = openSessions
          /\ gpc' = "read"
       \/ /\ gcap' = gcap /\ openSessions' = openSessions   \* the constructor raises
          /\ gpc' = "except"
    /\ UNCHANGED <<analyzer, curDelta, sinceSample, consecFails, relDone, sleepDone,
                   emitted, gexit,
                   sinceYield, lastGap, disconnected, othersG>>

\* if current_time - last_frame_time < frame_interval: continue
\* last_frame_time = current_time
LiveThrottle ==
    /\ gpc = "throttle"
    /\ IF curDelta < IntervalTicks
          THEN gpc' = "read" /\ curDelta' = curDelta
          ELSE gpc' = "annotate" /\ curDelta' = 0
    /\ UNCHANGED <<gcap, openSessions, analyzer, sinceSample, consecFails,
                   relDone, sleepDone, reopDone, emitted, gexit,
                   sinceYield, lastGap, disconnected, othersG>>

\* if self.analyzer: frame = self.analyzer.process_live_frame(frame)
\* ImageAnalyzer defines no process_live_frame: the call raises AttributeError
LiveAnnotate ==
    /\ gpc = "annotate"
    /\ gpc' = IF analyzer THEN "except" ELSE "encode"
    /\ UNCHANGED <<gcap, openSessions, analyzer, curDelta, sinceSample, consecFails,
                   relDone, sleepDone, reopDone, emitted, gexit,
                   sinceYield, lastGap, disconnected, othersG>>

\* variant: `break` in place of `continue` when imencode reports a failure
LiveEncodeBreaks ==
    /\ gpc = "encode"
    /\ \/ /\ gpc' = "finally"
          /\ UNCHANGED <<emitted, sinceYield, lastGap>>
       \/ /\ gpc' = "except"                                \* imencode raises
          /\ UNCHANGED <<emitted, sinceYield, lastGap>>
       \/ /\ emitted' = Min(MaxEmit, emitted + 1)           \* the frame is yielded
          /\ lastGap' = sinceYield /\ sinceYield' = 0
          /\ gpc' = "yield"
    /\ UNCHANGED <<gcap, openSessions, analyzer, curDelta, sinceSample, consecFails,
                   relDone, sleepDone, reopDone, gexit, disconnected, othersG>>

\* ret, buffer = cv2.imencode('.jpg', frame); if not ret: continue; yield ...
LiveEncode ==
    /\ gpc = "encode"
    /\ \/ /\ gpc' = "read"                                  \* not ret
          /\ UNCHANGED <<emitted, sinceYield, lastGap>>
       \/ /\ gpc' = "except"                                \* imencode raises
          /\ UNCHANGED <<emitted, sinceYield, lastGap>>
       \/ /\ emitted' = Min(MaxEmit, emitted + 1)           \* the frame is yielded
          /\ lastGap' = sinceYield /\ sinceYield' = 0
          /\ gpc' = "yield"
    /\ UNCHANGED <<gcap, openSessions, analyzer, curDelta, sinceSample, consecFails,
                   relDone, sleepDone, reopDone, gexit, disconnected, othersG>>

\* the consumer asks for the next frame: the generator resumes after the yield
LiveResume ==
    /\ gpc = "yield" /\ ~disconnected
    /\ \E d \in 0 .. IntervalTicks : Elapse(d)
    /\ gpc' = "read"
    /\ UNCHANGED <<gcap, openSessions, analyzer, curDelta, consecFails,
                   relDone, sleepDone, reopDone, emitted, gexit,
                   lastGap, disconnected, othersG>>

\* the consumer of the StreamingResponse goes away; nothing in the generator
\* reads this, it only takes effect when the generator is suspended at a yield
LiveDisconnect ==
    /\ gpc \notin {"off", "finished"} /\ ~disconnected
    /\ disconnected' = TRUE
    /\ UNCHANGED <<gpc, gcap, openSessions, analyzer, curDelta, sinceSample,
                   consecFails, relDone, sleepDone, reopDone, emitted, gexit,
                   sinceYield, lastGap, othersG>>

\* the suspended generator is closed: GeneratorExit is raised at the yield,
\* `except Exception` does not catch it, the finally clause runs
LiveCancel ==
    /\ gpc = "yield" /\ disconnected
    /\ gpc' = "finally" /\ gexit' = "cancelled"
    /\ UNCHANGED <<gcap, openSessions, analyzer, curDelta, sinceSample, consecFails,
                   relDone, sleepDone, reopDone, emitted,
                   sinceYield, lastGap, disconnected, othersG>>

\* except Exception as e: log
LiveExcept ==
    /\ gpc = "except"
    /\ gpc' = "finally" /\ gexit' = "exception"
    /\ UNCHANGED <<gcap, openSessions, analyzer, curDelta, sinceSample, consecFails,
                   relDone, sleepDone, reopDone, emitted,
                   sinceYield, lastGap, disconnected, othersG>>

\* finally: if cap: cap.release()
LiveFinally ==
    /\ gpc = "finally"
    /\ openSessions' = IF gcap = "open" THEN openSessions - 1 ELSE openSessions
    /\ gcap' = "released"
    /\ gpc' = "finished"
    /\ UNCHANGED <<analyzer, curDelta, sinceSample, consecFails,
                   relDone, sleepDone, reopDone, emitted, gexit,
                   sinceYield, lastGap, disconnected, othersG>>

(* one request GET /api/video_feed: a VideoStreamer and its generator *)
InitLive ==
    /\ SamplerOff /\ streamLimit = 0 /\ FsEmpty /\ AggOff /\ CycleOff /\ LocOff
    /\ gpc = "resolve" /\ gcap = "none" /\ openSessions = 0
    /\ analyzer \in BOOLEAN
    /\ curDelta = IntervalTicks /\ sinceSample = 0 /\ consecFails = 0
    /\ relDone = 0 /\ sleepDone = 0 /\ reopDone = 0 /\ emitted = 0 /\ gexit = ""
    /\ sinceYield = IntervalTicks /\ lastGap = IntervalTicks /\ disconnected = FALSE

NextLive ==
    \/ LiveResolve \/ LiveOpen \/ LiveRead \/ LiveRelease \/ LiveSleep
    \/ LiveReopen \/ LiveThrottle \/ LiveAnnotate \/ LiveEncode
    \/ LiveResume \/ LiveDisconnect \/ LiveCancel \/ LiveExcept \/ LiveFinally

SpecLive == InitLive /\ [][NextLive]_vars

\* cap.read() blocks on the network: time does not stand still over the reads
ReadTakesTime == LiveRead /\ sinceSample' > 0

\* cv2.imencode does not fail on every frame for ever
EncodeYields == LiveEncode /\ gpc' = "yield"

\* the generator, run by a worker thread of the server, keeps taking steps
SpecLiveFair ==
    /\ InitLive /\ [][NextLive]_vars
    /\ WF_vars(NextLive)
    /\ SF_vars(ReadTakesTime)
    /\ SF_vars(EncodeYields)

(***************************************************************************)
(* Channel lookup: ImageFetcher._get_hls_url behind GET /api/hls-url       *)
(***************************************************************************)

\* what no step of the lookup touches
othersL == <<samplerVars, fsVars, aggVars, cycleVars, liveVars>>

Channels == 1 .. MaxChan
\* an entry of cctvList; hlsUrl 0 stands for a missing or empty value
Entries == [channel : Channels, hlsUrl : 0 .. MaxUrl]
ChannelLists == UNION {[1 .. n -> Entries] : n \in 0 .. MaxList}
\* statuses the lookup service answers with
StatusCodes == {200, 500}

\* for cctv in cctv_list: if cctv.get('channel') == self.cctv_id:
\*     hls_url = cctv.get('hlsUrl'); if hls_url: return hls_url
\* return None
RECURSIVE FirstUrl(_, _)
FirstUrl(list, id) ==
    IF list = <<>> THEN 0
    ELSE IF Head(list).channel = id /\ Head(list).hlsUrl # 0 THEN Head(list).hlsUrl
    ELSE FirstUrl(Tail(list), id)

\* variant: the URL of the first entry is returned, whatever its channel
GetHlsUrlFirstEntry(status, list, id) ==
    IF status # 200 \/ list = <<>> THEN 0 ELSE list[1].hlsUrl

\* if response.status_code != 200: return None; else the search of the list
GetHlsUrl(status, list, id) == IF status # 200 THEN 0 ELSE FirstUrl(list, id)

\* cookies = fetcher._get_cookies(); if not cookies: raise HTTPException(503)
LocCookies ==
    /\ lpc = "cookies"
    /\ IF cookies
          THEN lpc' = "lookup" /\ httpStatus' = httpStatus
          ELSE lpc' = "done" /\ httpStatus' = 503
    /\ UNCHANGED <<cctv_id, cookies, status_code, cctv_list, hls_url, othersL>>

\* hls_url = fetcher._get_hls_url(cookies)
LocLookup ==
    /\ lpc = "lookup"
    /\ \/ hls_url' = GetHlsUrl(status_code, cctv_list, cctv_id)
       \/ hls_url' = 0                 \* except Exception: return None
    /\ lpc' = "respond"
    /\ UNCHANGED <<cctv_id, cookies, status_code, cctv_list, httpStatus, othersL>>

\* if not hls_url: raise HTTPException(404); return {"success": True, ...}
LocRespond ==
    /\ lpc = "respond"
    /\ httpStatus' = IF hls_url = 0 THEN 404 ELSE 200
    /\ lpc' = "done"
    /\ UNCHANGED <<cctv_id, cookies, status_code, cctv_list, hls_url, othersL>>

(* one request GET /api/hls-url?cctv_id=... and the answers of the service *)
InitLocator ==
    /\ SamplerOff /\ streamLimit = 0 /\ FsEmpty /\ AggOff /\ CycleOff /\ LiveOff
    /\ lpc = "cookies" /\ hls_url = 0 /\ httpStatus = 0
    /\ cctv_id \in Channels
    /\ cookies \in BOOLEAN
    /\ status_code \in StatusCodes
    /\ cctv_list \in ChannelLists

NextLocator == LocCookies \/ LocLookup \/ LocRespond

SpecLocator == InitLocator /\ [][NextLocator]_vars

(***************************************************************************)
(* Properties                                                              *)
(***************************************************************************)

\* C1: between cycles (the cycle has ended and the next timer is armed) no
\* per-cycle working directory exists, whatever the outcome of the cycle.
C1_NoResidualDir == cpc = "idle" => tempDirs = {}

\* C2: for a non-empty batch, frame_counts of the returned dict has as many
\* entries as the batch has paths, on every return path.
C2_CountsMatchBatch ==
    (apc = "done" /\ image_paths # <<>>)
        => Len(result.frame_counts) = Len(image_paths)

\* C3: avg_vehicle_count is sum(frame_counts) / len(frame_counts) when
\* frame_counts is non-empty and 0 when it is empty, for every input.
C3_Average ==
    apc = "done" =>
        IF result.frame_counts = <<>>
           THEN result.avg = <<0, 1>>
           ELSE /\ result.avg[2] > 0
                /\ result.avg[1] * Len(result.frame_counts)
                      = result.avg[2] * Sum(result.frame_counts)

C3_Witness ==
    /\ apc = "done"
    /\ result.frame_counts = <<3, 5, 4>>
    /\ result.avg = <<4, 1>>

\* C4: the frame re-detected and persisted for a batch of n >= 1 paths is the
\* one at position floor(n / 2); nothing else of the batch reaches output/.
C4_MiddleFrame ==
    (apc = "done" /\ image_paths # <<>>) =>
        LET n == Len(image_paths) IN
        /\ Cardinality(output) <= 1
        /\ \A i \in redetected : 2 * i <= n /\ n <= 2 * i + 1
        /\ \A o \in output :
              /\ o.idx \in redetected
              /\ o.path = image_paths[o.idx + 1]

C4_Witness ==
    /\ apc = "done" /\ Len(image_paths) = 4
    /\ \E o \in output : o.idx = 2 /\ o.path = image_paths[3]

\* C5: for every positive reported frame rate the stride is at least 1.
C5_StrideAtLeastOne == (spc = "read" /\ fps2 > 0) => skip_frames >= 1

\* C6: the sampler reads at most rate * 15 frames, and persists no frame
\* whose index is 15 or more.
C6_CeilingRespected ==
    /\ frame_count * FpsDen <= fps2 * CapSeconds
    /\ \A i \in 1 .. Len(saved_paths) : saved_paths[i] < CapSeconds

\* C7: a stream that ends after F frames, below the ceiling, with stride
\* s >= 1 and every write succeeding, yields ceil(F / s) paths, indexed
\* 0 .. ceil(F / s) - 1.
C7_PathsForFullStream ==
    (spc = "done" /\ exitPath = "eos" /\ writeFails = 0 /\ skip_frames >= 1) =>
        LET n == Len(sret) IN
        /\ n * skip_frames >= frame_count
        /\ (n - 1) * skip_frames < frame_count
        /\ \A i \in 1 .. n : sret[i] = i - 1

C7_Witness ==
    /\ spc = "done" /\ exitPath = "eos" /\ writeFails = 0
    /\ fps2 = 15 * FpsDen /\ frame_count = 150
    /\ sret = [i \in 1 .. 10 |-> i - 1]

\* C8: when the sampler returns, the handle it created has been released,
\* and released once; no handle is released twice.
C8_ReleasedOnce ==
    /\ releases <= 1
    /\ spc = "done" =>
          /\ cap # "open"
          /\ cap = "none" <=> releases = 0

C8_Witness ==
    /\ spc = "done" /\ exitPath = "exception"
    /\ cap = "released" /\ releases = 1 /\ saved_paths # <<>>

\* C9: the generator never holds more than one open decode session, and holds
\* none once it has finished.
C9_SessionsReleased ==
    /\ openSessions <= 1
    /\ gpc = "finished" => openSessions = 0

C9_Witness ==
    /\ gpc = "finished" /\ gexit = "cancelled" /\ gcap = "released"

\* C10: after k consecutive read failures the loop has released, paused and
\* reopened k times, in that order, and it never ends on a read failure.
C10_ReconnectEachFailure ==
    /\ gpc \in {"read", "throttle"} =>
          relDone = consecFails /\ sleepDone = consecFails /\ reopDone = consecFails
    /\ gpc = "release" =>
          /\ relDone = consecFails - 1 /\ sleepDone = relDone /\ reopDone = relDone
    /\ gpc = "sleep" =>
          /\ gcap = "released"
          /\ relDone = consecFails /\ sleepDone = consecFails - 1
          /\ reopDone = consecFails - 1
    /\ gpc = "reopen" =>
          /\ gcap = "released" /\ sinceSample = IntervalTicks
          /\ relDone = consecFails /\ sleepDone = consecFails
          /\ reopDone = consecFails - 1
    /\ (gpc \in {"finally", "finished"} /\ consecFails > 0) => gexit = "exception"

C10_Witness ==
    /\ gpc = "read" /\ consecFails = 3 /\ reopDone = 3 /\ gcap = "unopened"

\* C11: a failure while annotating a frame does not end the stream: from the
\* annotation step the generator goes on to encode the frame, it never enters
\* its exception exit (so that only the consumer's cancellation ends it).
C11_AnnotateFailureSurvived ==
    [][gpc = "annotate" => gpc' \in {"annotate", "encode"}]_vars

\* C12: the time between the emissions of two consecutively emitted frames is
\* at least frame_interval.
C12_EmissionSpacing == emitted >= 2 => lastGap >= IntervalTicks

\* C13: a frame is emitted only after it went through the analyzer, which
\* takes an analyzer to exist: no frame is emitted by a VideoStreamer whose
\* detector initialisation failed.
C13_EmittedFramesAnnotated == gpc = "yield" => analyzer

\* C14: once the consumer has disconnected, the generator eventually leaves
\* its loop and finishes (its finally clause releases the decode session),
\* whatever it was doing at the time of the disconnect.
C14_DisconnectDetected == disconnected ~> gpc = "finished"

\* C15: a first cycle that failed (no frames captured, or the aggregation hit
\* an error) has written no artifact and has handed exactly one message to the
\* alerting collaborator when it reaches schedule_next; one that succeeded has
\* handed it none.
C15_FailedCycleAlertsOnce ==
    (cpc = "schedule" /\ iteration = 1) =>
        /\ (frame_paths = <<>> \/ aexit = "exception") =>
               (output = {} /\ AlertCalls = 1)
        /\ aexit = "ok" => AlertCalls = 0

\* C16: when send_message has raised in the except handler, run_analysis goes
\* on to its finally clause (cleanup, then schedule_next) and ends with the
\* next timer armed (a stop() may cancel it afterwards).
C16_AlertFailureContained ==
    alertFailed =>
        /\ cpc \in {"finally", "schedule", "idle"}
        /\ cpc = "idle" => timer \in {"armed", "cancelled"}

C16_Witness ==
    /\ alertFailed /\ cpc = "idle" /\ timer = "armed" /\ alerts = 0 /\ ~stopped

\* C17: a cycle runs (try, sampling, analyze), may pass through the except
\* handler, then cleans up, then arms the timer: a directory is removed only
\* in the cleanup step, when the sampler and the aggregator are not running;
\* the timer is armed only by schedule_next after the cleanup step, and the
\* cycle ends only there, with no other timer armed at that moment.
C17_CycleOrder ==
    [][ /\ cpc' # cpc =>
              \/ cpc \in {"off", "idle"} /\ cpc' = "try"
              \/ cpc = "try" /\ cpc' \in {"sampling", "finally", "except"}
              \/ cpc = "sampling" /\ cpc' \in {"analyze", "finally"}
              \/ cpc = "analyze" /\ cpc' \in {"finally", "except"}
              \/ cpc = "except" /\ cpc' = "finally"
              \/ cpc = "finally" /\ cpc' = "schedule"
              \/ cpc = "schedule" /\ cpc' = "idle"
        /\ (tempDirs' # tempDirs /\ tempDirs' \subseteq tempDirs) =>
              (cpc = "finally" /\ cpc' = "schedule" /\ spc = "off" /\ apc # "call")
        /\ (timer' = "armed" /\ timer # "armed") => (cpc = "schedule" /\ cpc' = "idle")
        /\ (cpc = "schedule" /\ cpc' = "idle") => (timer # "armed" /\ timer' = "armed")
      ]_vars

C17_Witness ==
    /\ cpc = "idle" /\ iteration = 2 /\ timer = "armed" /\ tempDirs = {1}
    /\ alerts = 1

\* C18: once stop() has run, a cycle running on the timer thread (its timer
\* has fired) does not arm a timer again.
C18_StopIsFinal == [][(stopped /\ timer = "fired") => timer' # "armed"]_vars

\* C19: a cleanup step that finds no directory name chosen, or no directory of
\* that name, leaves the file system as it is and goes on to schedule_next.
C19_CleanupIdempotent ==
    [][ (cpc = "finally" /\ (temp_dir = 0 \/ temp_dir \notin tempDirs)) =>
           /\ tempDirs' = tempDirs /\ tempFiles' = tempFiles /\ output' = output
           /\ cpc' \in {"finally", "schedule"}
      ]_vars

C19_Witness ==
    /\ cpc = "schedule" /\ iteration = 2 /\ temp_dir = 0 /\ tempDirs = {1}

\* C20: when the lookup succeeded and no entry of the channel list has both
\* the requested channel and a stream URL, resolution yields no URL and the
\* endpoint answers 404; a URL that is returned is one the list gives for the
\* requested channel.
C20_NotFoundNeverOtherChannel ==
    (lpc = "done" /\ cookies) =>
        /\ (/\ status_code = 200
            /\ ~ \E i \in DOMAIN cctv_list :
                    cctv_list[i].channel = cctv_id /\ cctv_list[i].hlsUrl # 0)
              => (hls_url = 0 /\ httpStatus = 404)
        /\ hls_url # 0 =>
              \E i \in DOMAIN cctv_list :
                 cctv_list[i].channel = cctv_id /\ cctv_list[i].hlsUrl = hls_url

C20_Witness ==
    /\ lpc = "done" /\ cookies /\ status_code = 200 /\ cctv_id = 1
    /\ cctv_list = <<[channel |-> 2, hlsUrl |-> 1], [channel |-> 1, hlsUrl |-> 0]>>
    /\ hls_url = 0 /\ httpStatus = 404

\* C21: the endpoint answers 503 when no session cookies were obtained, 404
\* when the lookup succeeded and lists no URL for the requested channel, and
\* 500 when the lookup itself failed (a non-success status of the service).
C21_FailureKindsDistinct ==
    lpc = "done" =>
        /\ ~cookies => httpStatus = 503
        /\ (cookies /\ status_code # 200) => httpStatus = 500
        /\ (cookies /\ status_code = 200 /\ hls_url = 0) => httpStatus = 404

\* C22: a generator whose stream could not be resolved (no cookies, or no URL
\* for the camera) has finished at once, has emitted no frame and has never
\* opened a decode session.
C22_UnresolvedEndsEmpty ==
    gexit \in {"no_cookies", "no_url"} =>
        /\ gpc = "finished" /\ emitted = 0
        /\ gcap = "none" /\ openSessions = 0

C22_Witness ==
    /\ gpc = "finished" /\ gexit = "no_cookies" /\ analyzer
    /\ emitted = 0 /\ gcap = "none"

\* C23: the per-frame loop of analyze_multiple_frames runs to its end whatever
\* the detect calls meet: a frame whose detect call gave the empty result has
\* its entry in vehicle_counts, and that entry is 0; the counts returned on the
\* paths that reach the averaging are these.
C23_DetectFailureCounted ==
    (apc = "done" /\ image_paths # <<>>) =>
        /\ Len(vehicle_counts) = Len(image_paths)
        /\ \A i \in undetected : vehicle_counts[i] = 0
        /\ aexit \in {"ok", "middle_failed"} => result.frame_counts = vehicle_counts

C23_Witness ==
    /\ apc = "done" /\ aexit = "ok" /\ Len(image_paths) = 3
    /\ undetected = {2} /\ result.frame_counts = <<2, 0, 1>>

\* C24: when the sampler has returned the empty sequence the cycle goes
\* straight to its cleanup: the aggregator is not called and output/ is left
\* as it is; from there the cycle cleans up and ends by arming the timer.
C24_EmptyBatchSkipsCycle ==
    /\ []((cpc \in {"finally", "schedule"} /\ frame_paths = <<>>) =>
            (apc = "off" /\ \A o \in output : o.cycle # iteration))
    /\ [][ /\ (cpc = "sampling" /\ spc = "done" /\ sret = <<>> /\ cpc' # cpc) =>
                (cpc' = "finally" /\ output' = output /\ apc' = "off")
           /\ (cpc = "finally" /\ frame_paths = <<>> /\ cpc' # cpc) =>
                cpc' = "schedule"
           /\ (cpc = "schedule" /\ frame_paths = <<>> /\ cpc' # cpc) =>
                (cpc' = "idle" /\ timer' = "armed")
         ]_vars

C24_Witness ==
    /\ cpc = "finally" /\ iteration = 1 /\ frame_paths = <<>>
    /\ temp_dir \in tempDirs /\ apc = "off" /\ output = {}

\* C25: every path the sampler returns names a file that exists in the batch
\* directory and holds the frame read at index k * skip_frames; the indices k
\* are strictly increasing; no file of the directory holds another frame.
C25_SavedPathsIndexed ==
    spc = "done" =>
        /\ \A i \in 1 .. Len(sret) :
              <<temp_dir, sret[i], sret[i] * skip_frames>> \in tempFiles
        /\ \A i \in 1 .. Len(sret) - 1 : sret[i] < sret[i + 1]
        /\ \A f \in tempFiles : f[3] = f[2] * skip_frames

C25_Witness ==
    /\ spc = "done" /\ skip_frames = 2 /\ writeFails = 1 /\ sret = <<0, 2>>

\* C26: a sampler run whose decode session did not open returns the empty
\* sequence and leaves no directory and no file of its batch; a
\* fetch_and_download that returns before the sampler is called (no cookies,
\* no URL) gives the empty sequence and touches nothing under temp/.
C26_OpenFailureLeavesNothing ==
    /\ []((exitPath = "open_failed" /\ spc \in {"finally", "done"}) =>
            /\ sret = <<>> /\ temp_dir \notin tempDirs
            /\ \A f \in tempFiles : f[1] # temp_dir)
    /\ [][ (cpc = "try" /\ cpc' = "finally") =>
              /\ frame_paths' = <<>> /\ spc' = "off"
              /\ tempDirs' = tempDirs /\ tempFiles' = tempFiles
         ]_vars

C26_Witness ==
    /\ cpc = "sampling" /\ spc = "done" /\ exitPath = "open_failed"
    /\ cap = "released" /\ sret = <<>> /\ tempDirs = {} /\ tempFiles = {}

\* C27: an encode step never leaves the loop by itself; when imencode reports
\* a failure (the loop goes back to the read) nothing is emitted, the decode
\* session stays open and untouched, and last_frame_time keeps the time of the
\* failed frame, so that frame has used the emission slot of its interval.
C27_EncodeFailureSkipped ==
    [][ gpc = "encode" =>
          /\ gpc' \in {"encode", "read", "yield", "except"}
          /\ gpc' = "read" =>
                /\ emitted' = emitted /\ lastGap' = lastGap /\ sinceYield' = sinceYield
                /\ gcap = "open" /\ gcap' = gcap /\ openSessions' = openSessions
                /\ curDelta = 0 /\ curDelta' = 0
      ]_vars

C27_Witness ==
    /\ gpc = "read" /\ ~analyzer /\ gcap = "open" /\ consecFails = 0
    /\ curDelta = 0 /\ emitted = 0

\* C28: a timer is armed only while no cycle is in progress, so a cycle starts
\* only when none is running; every start of a cycle adds exactly one to
\* iteration, and nothing else changes it.
C28_NoOverlap ==
    /\ [](timer = "armed" => cpc = "idle")
    /\ [][ iteration' # iteration =>
              /\ iteration' = iteration + 1
              /\ cpc \in {"off", "idle"} /\ cpc' = "try"
         ]_vars

C28_Witness ==
    /\ cpc = "try" /\ iteration = 2 /\ timer = "fired" /\ tempDirs = {1}

====
